---- MODULE Spec2Model ----
(***************************************************************************)
(* Pi-hole local DNS record resource of terraform-provider-pihole: the     *)
(* resource handlers (create / read / delete / import) and the dual-path   *)
(* DNS record client (API-token client library or session-authenticated   *)
(* POSTs to /admin/scripts/pi-hole/php/customdns.php).                     *)
(*                                                                         *)
(* A Go string is a sequence of one-character strings, so that             *)
(* strings.ToLower, strings.Split, fmt.Sprintf and fmt.Errorf are computed *)
(* and not assumed.  A DNSRecord is [Domain |-> s, IP |-> s]; a row of the *)
(* customdns.php "get" response is the pair <<domain, ip>>.                *)
(*                                                                         *)
(* The handlers' type assertion of meta to the client is taken to succeed: *)
(* the provider hands every handler the client it configured.              *)
(***************************************************************************)
EXTENDS Integers, Sequences, FiniteSets, TLC

VARIABLES
    tokenClient,          \* c.tokenClient != nil (fixed when the client is built)
    loopVarPerIteration,  \* the build gives `for ... range` a fresh variable per iteration (go >= 1.22 in go.mod)
    piholeRecords,        \* Pi-hole's custom DNS list: the rows the "get" action answers with
    d,                    \* the resource's schema.ResourceData: [id, domain, ip]
    createdFor,           \* <<domain, ip>> for which resourceDNSRecordCreate assigned d.id, <<>> otherwise
    last                  \* what the last operation did and returned

vars == <<tokenClient, loopVarPerIteration, piholeRecords, d, createdFor, last>>

\* Largest number of rows Pi-hole's list holds in the model.
MaxRecords == 2

----------------------------------------------------------------------------
\* Inputs

\* Domains, in lower case, in upper case and with the ID's separator in it;
\* the query domains of direct client calls.
Domains == { <<"a">>, <<"A">>, <<"a", "_", "1">> }

\* The ("domain", "ip") pairs of the configuration.
Configs == { << <<"a">>, <<"1">> >>, << <<"A">>, <<"1">> >>, << <<"a", "_", "1">>, <<"2">> >> }

\* Rows added to Pi-hole's list behind the provider's back.
ExternalRows ==
    { << <<"a">>, <<"1">> >>, << <<"a">>, <<"2">> >>, << <<"A">>, <<"1">> >>,
      << <<"a", "_", "1">>, <<"1">> >>, << <<"a", "_", "1">>, <<"2">> >> }

\* IDs given to `terraform import`.
ImportIds == { <<"a">>, <<"a", "_", "1">> }

\* Messages of a customdns.php answer with success = false.
PiholeMessages == { <<"e">>, <<"%", "e">> }

----------------------------------------------------------------------------
\* Strings

\* strings.ToLower on the model's alphabet, whose only upper-case letter is "A".
RECURSIVE ToLower(_)
ToLower(s) ==
    IF s = <<>> THEN <<>>
    ELSE <<IF Head(s) = "A" THEN "a" ELSE Head(s)>> \o ToLower(Tail(s))

\* strings.Split(s, sep) for a one-character separator: the substrings between
\* the separators, one more than there are separators.
RECURSIVE SplitFrom(_, _, _, _, _)
SplitFrom(s, sep, i, cur, acc) ==
    IF i > Len(s) THEN Append(acc, cur)
    ELSE IF s[i] = sep THEN SplitFrom(s, sep, i + 1, <<>>, Append(acc, cur))
    ELSE SplitFrom(s, sep, i + 1, Append(cur, s[i]), acc)

Split(s, sep) == SplitFrom(s, sep, 1, <<>>, <<>>)

\* fmt.Sprintf("%s_%s", domain, ip)
Sprintf(domain, ip) == domain \o <<"_">> \o ip

\* fmt.Errorf(format) with no operands, on formats without flag, width or
\* precision characters: "%%" prints "%", "%" and a verb prints
\* "%!verb(MISSING)", a trailing "%" prints "%!(NOVERB)".
RECURSIVE ErrorfFrom(_, _)
ErrorfFrom(format, i) ==
    IF i > Len(format) THEN <<>>
    ELSE IF format[i] # "%" THEN <<format[i]>> \o ErrorfFrom(format, i + 1)
    ELSE IF i = Len(format) THEN <<"%!(NOVERB)">>
    ELSE IF format[i + 1] = "%" THEN <<"%">> \o ErrorfFrom(format, i + 2)
    ELSE <<"%!", format[i + 1], "(MISSING)">> \o ErrorfFrom(format, i + 2)

Errorf(format) == [kind |-> "error", msg |-> ErrorfFrom(format, 1)]

----------------------------------------------------------------------------
\* Errors and diagnostics

Nil == [kind |-> "nil", msg |-> <<>>]

\* NewNotFoundError(...): a *pihole.NotFoundError
NewNotFoundError == [kind |-> "NotFound", msg |-> <<"not found">>]

\* An error of RequestWithSession or of c.client.Do.
RequestError == [kind |-> "error", msg |-> <<"request failed">>]

\* An error of json.NewDecoder(res.Body).Decode.
DecodeError == [kind |-> "error", msg |-> <<"decode failed">>]

\* An error of the token client library other than ErrorLocalDNSNotFound.
LibError == [kind |-> "error", msg |-> <<"token client failed">>]

\* diag.FromErr(err): one Error diagnostic whose summary is err.Error().
FromErr(err) == << [severity |-> "Error", summary |-> err.msg] >>

----------------------------------------------------------------------------
\* Sequences

Range(s) == { s[i] : i \in 1..Len(s) }

\* The subsequence of s at the indices I, in order.
Pick(s, I) ==
    LET F[i \in 0..Len(s)] ==
            IF i = 0 THEN <<>>
            ELSE IF i \in I THEN Append(F[i - 1], s[i]) ELSE F[i - 1]
    IN F[Len(s)]

\* DNSRecordsListResponse.ToDNSRecordList: list = append(list, DNSRecord{record[0], record[1]})
ToDNSRecordList(rr) ==
    LET list[i \in 0..Len(rr.Data)] ==
            IF i = 0 THEN <<>>
            ELSE Append(list[i - 1], [Domain |-> rr.Data[i][1], IP |-> rr.Data[i][2]])
    IN list[Len(rr.Data)]

----------------------------------------------------------------------------
\* Pi-hole (customdns.php) and the token client library: the environment

\* The list after Pi-hole accepted action=add for (domain, ip): Pi-hole stores
\* the domain in lower case.
PiholeAdd(rows, domain, ip) == Append(rows, <<ToLower(domain), ip>>)

\* Pi-hole accepts an add while the list has room and lacks the row.
CanAdd(rows, domain, ip) ==
    /\ Len(rows) < MaxRecords
    /\ <<ToLower(domain), ip>> \notin Range(rows)

\* The list after action=delete for (domain, ip).
PiholeDelete(rows, domain, ip) == SelectSeq(rows, LAMBDA r : r # <<domain, ip>>)

\* A session request ends "ok", or fails before an answer is read
\* ("requestErr"), or its answer does not decode ("decodeErr").
HttpOutcomes == IF tokenClient THEN {"ok"} ELSE {"ok", "requestErr", "decodeErr"}

\* What a call of the token client library returns: err is "nil",
\* "ErrorLocalDNSNotFound" or "error"; records are the records it returns;
\* removed are the indices of the rows a Delete removed from Pi-hole's list.
NoLib == [err |-> "nil", records |-> <<>>, removed |-> {}]

LibFailed == [err |-> "error", records |-> <<>>, removed |-> {}]

LibNotFound == [err |-> "ErrorLocalDNSNotFound", records |-> <<>>, removed |-> {}]

\* LocalDNS.List: Pi-hole's list, or an error.
LibListOutcomes ==
    IF tokenClient
    THEN { [err |-> "nil", records |-> ToDNSRecordList([Data |-> piholeRecords]), removed |-> {}],
           LibFailed }
    ELSE { NoLib }

\* LocalDNS.GetList: some of Pi-hole's records, in list order, or an error.
LibGetListOutcomes ==
    IF tokenClient
    THEN { [err |-> "nil",
            records |-> Pick(ToDNSRecordList([Data |-> piholeRecords]), I),
            removed |-> {}] : I \in SUBSET (1..Len(piholeRecords)) }
         \cup { LibNotFound, LibFailed }
    ELSE { NoLib }

\* LocalDNS.Get: one of Pi-hole's records, or an error.
LibGetOutcomes ==
    IF tokenClient
    THEN { [err |-> "nil",
            records |-> Pick(ToDNSRecordList([Data |-> piholeRecords]), {i}),
            removed |-> {}] : i \in 1..Len(piholeRecords) }
         \cup { LibNotFound, LibFailed }
    ELSE { NoLib }

\* LocalDNS.Create: the record was added, or an error.
LibCreateOutcomes(domain, ip) ==
    IF tokenClient
    THEN (IF CanAdd(piholeRecords, domain, ip)
          THEN { [err |-> "nil", records |-> << [Domain |-> domain, IP |-> ip] >>, removed |-> {}] }
          ELSE {})
         \cup { LibFailed }
    ELSE { NoLib }

\* LocalDNS.Delete: some rows were removed, or an error.
LibDeleteOutcomes ==
    IF tokenClient
    THEN { [err |-> "nil", records |-> <<>>, removed |-> I] :
               I \in SUBSET (1..Len(piholeRecords)) }
         \cup { LibFailed }
    ELSE { NoLib }

\* No answer of customdns.php was read.
NoResponse == [Success |-> FALSE, Message |-> <<"-">>]

\* The answers of customdns.php to action=add.
AddResponses(domain, ip) ==
    { [Success |-> FALSE, Message |-> m] : m \in PiholeMessages }
    \cup (IF CanAdd(piholeRecords, domain, ip)
          THEN { [Success |-> TRUE, Message |-> <<>>] }
          ELSE {})

\* What the environment decides in a CreateDNSRecord: the library's result, or
\* the fate of the session request and the answer read from it.
CreateEnvs(domain, ip) ==
    IF tokenClient
    THEN { [lib |-> l, http |-> "ok", response |-> NoResponse] :
               l \in LibCreateOutcomes(domain, ip) }
    ELSE { [lib |-> NoLib, http |-> h, response |-> NoResponse] :
               h \in {"requestErr", "decodeErr"} }
         \cup { [lib |-> NoLib, http |-> "ok", response |-> r] :
                    r \in AddResponses(domain, ip) }

\* What the environment decides in a DeleteDNSRecord: the library's result, or
\* the fate of the list request and the delete request that fails (0: none).
DeleteEnvs ==
    IF tokenClient
    THEN { [lib |-> l, http |-> "ok", failAt |-> 0] : l \in LibDeleteOutcomes }
    ELSE { [lib |-> NoLib, http |-> h, failAt |-> 0] :
               h \in {"requestErr", "decodeErr"} }
         \cup { [lib |-> NoLib, http |-> "ok", failAt |-> k] :
                    k \in 0..Len(piholeRecords) }

----------------------------------------------------------------------------
\* The client (internal/pihole/dns.go).  Every operation returns the paths it
\* was served by, its error, its records and Pi-hole's list after it.

\* The address of the range loop's variable in iteration i: one variable for
\* the whole loop, or one per iteration.
LoopVarAddr(i) == IF loopVarPerIteration THEN i ELSE 0

\* ListDNSRecords
ListDNSRecords(lib, http) ==
    IF tokenClient
    THEN [paths |-> {"token"},
          err |-> IF lib.err = "nil" THEN Nil ELSE LibError,
          records |-> lib.records,
          pihole |-> piholeRecords]
    ELSE IF http = "requestErr"
    THEN [paths |-> {"session"}, err |-> RequestError, records |-> <<>>, pihole |-> piholeRecords]
    ELSE IF http = "decodeErr"
    THEN [paths |-> {"session"}, err |-> DecodeError, records |-> <<>>, pihole |-> piholeRecords]
    ELSE [paths |-> {"session"}, err |-> Nil,
          records |-> ToDNSRecordList([Data |-> piholeRecords]),
          pihole |-> piholeRecords]

\* The loop of GetDNSRecordList: results = append(results, &record) for every
\* record of list whose Domain is the lower-cased domain; the records the
\* returned pointers refer to once the loop has ended.
MatchingRecords(list, domain) ==
    LET matches == { i \in 1..Len(list) : list[i].Domain = ToLower(domain) }
        \* the addresses appended, in iteration order
        results == Pick([i \in 1..Len(list) |-> LoopVarAddr(i)], matches)
        \* the value each loop variable holds after the loop: that of the
        \* last iteration that assigned it
        heap(addr) ==
            LET its == { i \in 1..Len(list) : LoopVarAddr(i) = addr }
            IN list[CHOOSE i \in its : \A j \in its : j <= i]
        deref[k \in 0..Len(results)] ==
            IF k = 0 THEN <<>> ELSE Append(deref[k - 1], heap(results[k]))
    IN deref[Len(results)]

\* GetDNSRecordList
GetDNSRecordList(domain, lib, http) ==
    IF tokenClient
    THEN [paths |-> {"token"},
          err |-> IF lib.err = "nil" THEN Nil
                  ELSE IF lib.err = "ErrorLocalDNSNotFound" THEN NewNotFoundError
                  ELSE LibError,
          records |-> IF lib.err = "nil" THEN lib.records ELSE <<>>,
          pihole |-> piholeRecords]
    ELSE LET listed == ListDNSRecords(lib, http)
             results == MatchingRecords(listed.records, domain)
         IN IF listed.err # Nil
            THEN [listed EXCEPT !.records = <<>>]
            ELSE IF Len(results) = 0
            THEN [listed EXCEPT !.err = NewNotFoundError, !.records = <<>>]
            ELSE [listed EXCEPT !.records = results]

\* GetDNSRecord
GetDNSRecord(domain, lib, http) ==
    IF tokenClient
    THEN [paths |-> {"token"},
          err |-> IF lib.err = "nil" THEN Nil
                  ELSE IF lib.err = "ErrorLocalDNSNotFound" THEN NewNotFoundError
                  ELSE LibError,
          records |-> IF lib.err = "nil" THEN lib.records ELSE <<>>,
          pihole |-> piholeRecords]
    ELSE LET list == GetDNSRecordList(domain, lib, http)
         IN IF list.err # Nil
            THEN list
            ELSE [list EXCEPT !.records = << list.records[1] >>]

\* CreateDNSRecord without its `if c.tokenClient != nil` branch: the session
\* request is issued whatever the client holds.
CreateDNSRecordNoTokenBranch(record, lib, http, response) ==
    IF http = "requestErr"
    THEN [paths |-> {"session"}, err |-> RequestError, records |-> <<>>, pihole |-> piholeRecords]
    ELSE IF http = "decodeErr"
    THEN [paths |-> {"session"}, err |-> DecodeError, records |-> <<>>, pihole |-> piholeRecords]
    ELSE IF ~response.Success
    THEN [paths |-> {"session"}, err |-> Errorf(response.Message), records |-> <<>>,
          pihole |-> piholeRecords]
    ELSE [paths |-> {"session"}, err |-> Nil, records |-> <<record>>,
          pihole |-> PiholeAdd(piholeRecords, record.Domain, record.IP)]

\* CreateDNSRecord
CreateDNSRecord(record, lib, http, response) ==
    IF tokenClient
    THEN [paths |-> {"token"},
          err |-> IF lib.err = "nil" THEN Nil ELSE LibError,
          records |-> IF lib.err = "nil" THEN lib.records ELSE <<>>,
          pihole |-> IF lib.err = "nil"
                     THEN PiholeAdd(piholeRecords, record.Domain, record.IP)
                     ELSE piholeRecords]
    ELSE IF http = "requestErr"
    THEN [paths |-> {"session"}, err |-> RequestError, records |-> <<>>, pihole |-> piholeRecords]
    ELSE IF http = "decodeErr"
    THEN [paths |-> {"session"}, err |-> DecodeError, records |-> <<>>, pihole |-> piholeRecords]
    ELSE IF ~response.Success
    THEN [paths |-> {"session"}, err |-> Errorf(response.Message), records |-> <<>>,
          pihole |-> piholeRecords]
    ELSE [paths |-> {"session"}, err |-> Nil, records |-> <<record>>,
          pihole |-> PiholeAdd(piholeRecords, record.Domain, record.IP)]

\* The loop of DeleteDNSRecord: one action=delete request per record found;
\* request number failAt fails (0: none does) and ends the loop.  Nothing of
\* an answer is read.
DeleteEach(records, rows, failAt) ==
    LET after[k \in 0..Len(records)] ==
            IF k = 0 THEN [pihole |-> rows, err |-> Nil]
            ELSE IF after[k - 1].err # Nil THEN after[k - 1]
            ELSE IF k = failAt THEN [after[k - 1] EXCEPT !.err = RequestError]
            ELSE [pihole |-> PiholeDelete(after[k - 1].pihole, records[k].Domain, records[k].IP),
                  err |-> Nil]
    IN after[Len(records)]

\* DeleteDNSRecord
DeleteDNSRecord(domain, lib, http, failAt) ==
    IF tokenClient
    THEN [paths |-> {"token"},
          err |-> IF lib.err = "nil" THEN Nil ELSE LibError,
          records |-> <<>>,
          pihole |-> IF lib.err = "nil"
                     THEN Pick(piholeRecords, (1..Len(piholeRecords)) \ lib.removed)
                     ELSE piholeRecords]
    ELSE LET found == GetDNSRecordList(domain, lib, http)
             done == DeleteEach(found.records, piholeRecords, failAt)
         IN IF found.err # Nil
            THEN found
            ELSE [paths |-> found.paths \cup {"session"}, err |-> done.err,
                  records |-> <<>>, pihole |-> done.pihole]

----------------------------------------------------------------------------
\* The resource (resourceDNSRecord): state and handlers

\* A resource that is not in the Terraform state: its ID is empty.
NoResource == [id |-> <<>>, domain |-> <<>>, ip |-> <<>>]

NoLast ==
    [op |-> "none", query |-> <<>>, paths |-> {}, err |-> Nil, records |-> <<>>,
     diags |-> <<>>, panicked |-> FALSE, fault |-> FALSE, message |-> <<"-">>]

Init ==
    /\ tokenClient \in BOOLEAN
    /\ loopVarPerIteration \in BOOLEAN
    /\ piholeRecords = <<>>
    /\ d = NoResource
    /\ createdFor = <<>>
    /\ last = NoLast

\* What a client call leaves in `last`.
Called(op, query, res, fault) ==
    [NoLast EXCEPT !.op = op, !.query = query, !.paths = res.paths, !.err = res.err,
                   !.records = res.records, !.fault = fault]

\* resourceDNSRecordCreate, for the planned attributes (domain, ip).  message
\* is the message of Pi-hole's answer when it answered success = false.
resourceDNSRecordCreate(domain, ip, lib, http, response) ==
    /\ d.id = <<>>
    /\ LET res == CreateDNSRecord([Domain |-> domain, IP |-> ip], lib, http, response)
           call == Called("Create", Sprintf(domain, ip), res, lib.err = "error" \/ http # "ok")
       IN /\ piholeRecords' = res.pihole
          /\ IF res.err # Nil
             THEN /\ d' = d
                  /\ createdFor' = createdFor
                  /\ last' = [call EXCEPT !.diags = FromErr(res.err),
                                          !.message = response.Message]
             ELSE /\ d' = [id |-> Sprintf(domain, ip), domain |-> domain, ip |-> ip]
                  /\ createdFor' = <<domain, ip>>
                  /\ last' = call
    /\ UNCHANGED <<tokenClient, loopVarPerIteration>>

\* resourceDNSRecordRead.  An empty ID takes the resource out of the state,
\* its attributes with it.  id[1] of the source is id[2] here; it is read
\* in the loop's first iteration, and panics when the ID has no "_".
resourceDNSRecordRead(lib, http) ==
    /\ d.id # <<>>
    /\ LET id == Split(d.id, "_")
           res == GetDNSRecordList(d.id, lib, http)
           call == Called("Read", d.id, res, lib.err = "error" \/ http # "ok")
           matching == SelectSeq(res.records, LAMBDA r : r.IP = id[2])
           record == matching[Len(matching)]
       IN IF res.err # Nil
          THEN IF res.err.kind = "NotFound"
               THEN d' = NoResource /\ createdFor' = <<>> /\ last' = call
               ELSE d' = d /\ createdFor' = createdFor
                    /\ last' = [call EXCEPT !.diags = FromErr(res.err)]
          ELSE IF res.records # <<>> /\ Len(id) < 2
          THEN d' = d /\ createdFor' = createdFor /\ last' = [call EXCEPT !.panicked = TRUE]
          ELSE IF res.records = <<>> \/ matching = <<>>
          THEN d' = NoResource /\ createdFor' = <<>> /\ last' = call
          ELSE d' = [d EXCEPT !.domain = record.Domain, !.ip = record.IP]
               /\ createdFor' = createdFor /\ last' = call
    /\ UNCHANGED <<tokenClient, loopVarPerIteration, piholeRecords>>

\* resourceDNSRecordDelete
resourceDNSRecordDelete(lib, http, failAt) ==
    /\ d.id # <<>>
    /\ LET res == DeleteDNSRecord(d.id, lib, http, failAt)
           call == Called("Delete", d.id, res,
                          lib.err = "error" \/ http # "ok" \/ res.err = RequestError)
       IN /\ piholeRecords' = res.pihole
          /\ IF res.err # Nil
             THEN d' = d /\ createdFor' = createdFor
                  /\ last' = [call EXCEPT !.diags = FromErr(res.err)]
             ELSE d' = NoResource /\ createdFor' = <<>> /\ last' = call
    /\ UNCHANGED <<tokenClient, loopVarPerIteration>>

\* Importer: schema.ImportStatePassthroughContext takes the ID as given.
ImportStatePassthroughContext(id) ==
    /\ d.id = <<>>
    /\ d' = [NoResource EXCEPT !.id = id]
    /\ createdFor' = <<>>
    /\ last' = [NoLast EXCEPT !.op = "Import", !.query = id]
    /\ UNCHANGED <<tokenClient, loopVarPerIteration, piholeRecords>>

\* A caller of Client.ListDNSRecords.
CallListDNSRecords(lib, http) ==
    /\ last' = Called("ListDNSRecords", <<>>, ListDNSRecords(lib, http),
                      lib.err = "error" \/ http # "ok")
    /\ UNCHANGED <<tokenClient, loopVarPerIteration, piholeRecords, d, createdFor>>

\* A caller of Client.GetDNSRecordList.
CallGetDNSRecordList(domain, lib, http) ==
    /\ last' = Called("GetDNSRecordList", domain, GetDNSRecordList(domain, lib, http),
                      lib.err = "error" \/ http # "ok")
    /\ UNCHANGED <<tokenClient, loopVarPerIteration, piholeRecords, d, createdFor>>

\* A caller of Client.GetDNSRecord.
CallGetDNSRecord(domain, lib, http) ==
    /\ last' = Called("GetDNSRecord", domain, GetDNSRecord(domain, lib, http),
                      lib.err = "error" \/ http # "ok")
    /\ UNCHANGED <<tokenClient, loopVarPerIteration, piholeRecords, d, createdFor>>

\* Somebody else adds a row to Pi-hole's list.
ExternalAdd(row) ==
    /\ Len(piholeRecords) < MaxRecords
    /\ row \notin Range(piholeRecords)
    /\ piholeRecords' = Append(piholeRecords, row)
    /\ last' = [NoLast EXCEPT !.op = "External"]
    /\ UNCHANGED <<tokenClient, loopVarPerIteration, d, createdFor>>

\* Somebody else removes a row from Pi-hole's list.
ExternalRemove(i) ==
    /\ i \in 1..Len(piholeRecords)
    /\ piholeRecords' = Pick(piholeRecords, (1..Len(piholeRecords)) \ {i})
    /\ last' = [NoLast EXCEPT !.op = "External"]
    /\ UNCHANGED <<tokenClient, loopVarPerIteration, d, createdFor>>

Next ==
    \/ \E config \in Configs :
           \E env \in CreateEnvs(config[1], config[2]) :
               resourceDNSRecordCreate(config[1], config[2], env.lib, env.http, env.response)
    \/ \E lib \in LibGetListOutcomes, http \in HttpOutcomes :
           resourceDNSRecordRead(lib, http)
    \/ \E env \in DeleteEnvs : resourceDNSRecordDelete(env.lib, env.http, env.failAt)
    \/ \E id \in ImportIds : ImportStatePassthroughContext(id)
    \/ \E lib \in LibListOutcomes, http \in HttpOutcomes : CallListDNSRecords(lib, http)
    \/ \E domain \in Domains, lib \in LibGetListOutcomes, http \in HttpOutcomes :
           CallGetDNSRecordList(domain, lib, http)
    \/ \E domain \in Domains, lib \in LibGetOutcomes, http \in HttpOutcomes :
           CallGetDNSRecord(domain, lib, http)
    \/ \E row \in ExternalRows : ExternalAdd(row)
    \/ \E i \in 1..MaxRecords : ExternalRemove(i)

Spec == Init /\ [][Next]_vars

----------------------------------------------------------------------------
\* Properties

\* The record <<domain, ip>> as a DNSRecord.
AsRecord(row) == [Domain |-> row[1], IP |-> row[2]]

\* The resource carries the ID resourceDNSRecordCreate assigned for a record
\* that Pi-hole holds.
HoldsCreated ==
    /\ createdFor # <<>>
    /\ d.id = Sprintf(createdFor[1], createdFor[2])
    /\ createdFor \in Range(piholeRecords)

\* C1: when Pi-hole holds a record (domain, ip) and the resource carries the
\* ID Create assigned for it, a Read whose requests all succeed (on the token
\* path: to which the library returns that record) keeps the ID non-empty and
\* sets "domain" and "ip" to the record's domain and IP, on both paths.
C1_ReadFindsRecord ==
    [][ ( /\ last'.op = "Read"
          /\ HoldsCreated
          /\ ~last'.fault
          /\ tokenClient => AsRecord(createdFor) \in Range(last'.records) )
        => ( /\ d'.id # <<>>
             /\ d'.domain = createdFor[1]
             /\ d'.ip = createdFor[2] ) ]_vars

\* C2: for a resource created for (domain, ip) whose record Pi-hole holds, a
\* Delete whose requests all succeed (on the token path: in which the library
\* removes that record) returns no error, leaves no record (domain, ip) in
\* Pi-hole's list and empties the ID.
C2_DeleteRemovesRecord ==
    [][ ( /\ last'.op = "Delete"
          /\ HoldsCreated
          /\ ~last'.fault
          /\ tokenClient => createdFor \notin Range(piholeRecords') )
        => ( /\ last'.diags = <<>>
             /\ createdFor \notin Range(piholeRecords')
             /\ d'.id = <<>> ) ]_vars

\* The operations that call the client.
ClientOps == {"Create", "Read", "Delete", "ListDNSRecords", "GetDNSRecordList", "GetDNSRecord"}

\* C3: every client operation is served by the token client alone when one is
\* configured, and by session requests to customdns.php alone when none is;
\* no operation uses both paths.
C3_DualPathSelection ==
    last.op \in ClientOps =>
        /\ tokenClient => last.paths = {"token"}
        /\ ~tokenClient => last.paths = {"session"}

\* A session-path Delete that found records and issued its delete requests.
C3_Witness ==
    /\ ~tokenClient
    /\ last.op = "Delete"
    /\ last.err = Nil
    /\ last.paths = {"session"}
    /\ d.id = <<>>

\* C4: Create sets the ID to "<domain>_<ip>" exactly when CreateDNSRecord
\* returns no error; otherwise it returns one error diagnostic and leaves the
\* ID empty, and when Pi-hole answered success = false the diagnostic carries
\* Pi-hole's message.
C4_CreateSetsIdOnlyOnSuccess ==
    last.op = "Create" =>
        /\ last.err = Nil => d.id = last.query /\ last.diags = <<>>
        /\ last.err # Nil =>
               /\ d.id = <<>>
               /\ Len(last.diags) = 1
               /\ last.diags[1].severity = "Error"
               /\ (~tokenClient /\ ~last.fault) => last.diags[1].summary = last.message

\* The IPs a record can have to count as having the resource's IP: the "ip"
\* attribute and every part of the ID after its first "_".
ResourceIPs(r) == {r.ip} \cup Range(Tail(Split(r.id, "_")))

\* C5: when the lookup returns a not-found error, or records none of which
\* has the resource's IP, Read empties the ID and returns no diagnostic; when
\* the lookup fails with another error, Read returns an error diagnostic and
\* leaves the ID and the attributes as they were.
C5_ReadGoneOrFailed ==
    [][ last'.op = "Read" =>
          /\ ( \/ last'.err.kind = "NotFound"
               \/ /\ last'.err = Nil
                  /\ \A r \in Range(last'.records) : r.IP \notin ResourceIPs(d) )
             => ( d'.id = <<>> /\ last'.diags = <<>> /\ ~last'.panicked )
          /\ last'.err.kind = "error"
             => ( Len(last'.diags) = 1 /\ d' = d ) ]_vars

\* The records of Pi-hole's list whose Domain is the lower-cased domain, in
\* list order.
AllResults(domain) ==
    SelectSeq(ToDNSRecordList([Data |-> piholeRecords]),
              LAMBDA r : r.Domain = ToLower(domain))

\* C6: on the session path, when the list request succeeds,
\* GetDNSRecordList(domain) returns exactly the records of Pi-hole's list
\* whose Domain is the lower-cased domain, each with its own Domain and IP
\* and in list order, and a not-found error exactly when there is none;
\* GetDNSRecord(domain) returns the first of them.
C6_SessionRecordMatching ==
    (~tokenClient /\ ~last.fault) =>
        /\ last.op = "GetDNSRecordList" =>
               /\ last.err.kind = "NotFound" <=> AllResults(last.query) = <<>>
               /\ AllResults(last.query) # <<>> =>
                      last.err = Nil /\ last.records = AllResults(last.query)
        /\ (last.op = "GetDNSRecord" /\ AllResults(last.query) # <<>>) =>
               last.err = Nil /\ last.records = << AllResults(last.query)[1] >>

====
